---- MODULE Spec2Model ----
(***************************************************************************)
(* Morphism Composer (src/src/components/simulators/MorphismComposer.tsx). *)
(*                                                                         *)
(* The component keeps four pieces of React state: selected (a list of     *)
(* morphism ids), composition (a Morphism or null), error (a string or     *)
(* null) and isNewComposition.  Two handlers change them:                  *)
(* handleSelectMorphism(id), bound to every diagram arrow and every        *)
(* morphism button, and clearSelection, bound to the Clear button.  A      *)
(* handler reads the state of the render it was created in and queues      *)
(* set-state calls; React applies the queued calls together when the       *)
(* handler returns, the last call to a setter winning.                     *)
(*                                                                         *)
(* Strings are TLA+ strings.  The source's two non-ASCII characters are    *)
(* written in ASCII: the ring operator U+2218 is Ring, the "not equal"     *)
(* sign U+2260 of the error text is NotEqualSign.                          *)
(*                                                                         *)
(* The morphism buttons are rendered with the handler of the current       *)
(* render.  The diagram arrows get their click handler inside the drawing  *)
(* effect (useEffect, lines 133-375), which runs again only after a render *)
(* that changed one of its dependencies; until then an arrow calls the     *)
(* handleSelectMorphism of the render the effect last ran in.  React 18    *)
(* (README, Tech Stack) renders and runs the effects of a click before the *)
(* next click is dispatched.  showHint is read by neither handler nor by   *)
(* the effect and is left out.                                             *)
(*                                                                         *)
(* A nullable value is a sequence of length 0 (null) or 1 (the value).     *)
(*                                                                         *)
(* Four more parts of the application are modelled after the composer,    *)
(* each with its own variables and its own specification, the variables of *)
(* the others staying as constructed: a second MorphismComposer instance   *)
(* (SpecTwo), CategoryBuilder (SpecBuilder), the book reader's reducer     *)
(* (SpecBook) and NaturalTransformationVisualizer (SpecVisualizer).        *)
(***************************************************************************)
EXTENDS Integers, Sequences, FiniteSets, TLC

VARIABLES
    morphisms,          \* const [morphisms] = useState(initialMorphisms)
    selected,           \* useState<string[]>([])
    composition,        \* useState<Morphism | null>(null)
    error,              \* useState<string | null>(null)
    isNewComposition,   \* useState(false)
    lastOp,             \* history: the handler that ran last and its argument
    prev,               \* history: selected/composition/error/isNewComposition
                        \* as they were when that handler started
    arrowBound,         \* the render whose handleSelectMorphism the diagram
                        \* arrows call: the render the drawing effect last ran in
    other,              \* a second MorphismComposer instance over the same
                        \* catalog: its selected/composition/error/isNewComposition
    otherBound,         \* the render the arrows of the second instance call
    actor,              \* history: the instance whose handler ran last (0: none)
    builder,            \* CategoryBuilder (FunctorMapper.tsx, from line 502):
                        \* its objects, morphisms, selectedObject,
                        \* isAddingMorphism, morphismSource and nextLabel
    book,               \* the BookState of BookProvider's useReducer
    dispatched,         \* history: the type of the action dispatched last
    pageMoved,          \* history: that action changed currentPage
    visualizer,         \* NaturalTransformationVisualizer: its activePreset,
                        \* highlightPath and animating
    timers,             \* the setTimeout callbacks of handleAnimate that are
                        \* pending, in the order they are due
    lastCall,           \* history: the handler or callback of the
                        \* visualizer that ran last
    shown               \* history: the values highlightPath was set to since
                        \* the last animation run started, while it ran

\* The variables of the first MorphismComposer instance.
composerVars == <<morphisms, selected, composition, error, isNewComposition, lastOp,
                  prev, arrowBound>>

\* The variables of the second MorphismComposer instance.
secondVars == <<other, otherBound>>

\* The state outside the first MorphismComposer instance, which its handlers
\* have no setter for.
\* The variables of the book reader.
bookVars == <<book, dispatched, pageMoved>>

\* The variables of NaturalTransformationVisualizer.
visualizerVars == <<visualizer, timers, lastCall, shown>>

outsideComposer == <<secondVars, builder, bookVars, visualizerVars>>

vars == <<composerVars, actor, outsideComposer>>

-----------------------------------------------------------------------------
(* Bounds of the generated catalogs. *)

NumObjects == 2

NumMorphisms == 3

\* CategoryBuilder: addObject is taken while nextLabel is one of the first
\* MaxLetter letters, and a morphism is added while there are fewer than
\* MaxBuilderMorphisms.
MaxLetter == 4

MaxBuilderMorphisms == 3

\* Book: SET_PAGE payloads reach PageMargin pages beyond either end.
PageMargin == 2

\* Visualizer: path-button clicks are followed while the record of one run
\* holds fewer than MaxShown values.
MaxShown == 3

-----------------------------------------------------------------------------
(* Values *)

Null == <<>>

Some(v) == <<v>>

Ring == "*"

NotEqualSign == "/="

\* The shipped catalog.
initialMorphisms ==
    << [id |-> "f", label |-> "f", source |-> "A", target |-> "B"],
       [id |-> "g", label |-> "g", source |-> "B", target |-> "C"],
       [id |-> "h", label |-> "h", source |-> "C", target |-> "D"],
       [id |-> "k", label |-> "k", source |-> "A", target |-> "C"] >>

\* The objects the diagram can draw (the keys of objectPositions) and one more
\* name, for catalogs over a larger object set.
ObjectPool == <<"A", "B", "C", "D", "E">>

\* Ids and labels of the generated catalogs; a label differs from its id so
\* that the id and the label of a composite can be told apart.
IdPool == <<"m1", "m2", "m3", "m4", "m5">>

LabelPool == <<"u", "v", "w", "x", "y">>

Objects == { ObjectPool[i] : i \in 1..NumObjects }

\* The ways to choose the 2 * NumMorphisms endpoints (source of the first
\* morphism, its target, source of the second, ...) among the objects, the
\* objects being named in the order of their first use: the first endpoint is
\* ObjectPool[1] and an endpoint is an object used before it or the next
\* unused one.  The handlers compare object names only for equality, so a
\* catalog that names its objects in another order behaves as the one here
\* that it is a renaming of.
Endpoints ==
    { e \in [1..(2 * NumMorphisms) -> 1..NumObjects] :
        /\ e[1] = 1
        /\ \A k \in 2..(2 * NumMorphisms) :
               \E j \in 1..(k - 1) : e[k] <= e[j] + 1 }

\* Every catalog of NumMorphisms morphisms with distinct ids over Objects, up
\* to the naming of the objects.
GeneratedCatalogs ==
    { [ i \in 1..NumMorphisms |->
          [id |-> IdPool[i], label |-> LabelPool[i],
           source |-> ObjectPool[e[2 * i - 1]], target |-> ObjectPool[e[2 * i]]] ] :
      e \in Endpoints }

\* The catalogs a simulator instance is constructed over.
Catalogs == {initialMorphisms} \cup GeneratedCatalogs

-----------------------------------------------------------------------------
(* Array helpers of the handlers *)

\* Array.prototype.includes
includes(arr, x) == \E i \in 1..Len(arr) : arr[i] = x

\* selected.filter(id => id !== morphismId)
filterOut(arr, x) ==
    LET keep(y) == y # x
    IN  SelectSeq(arr, keep)

\* morphisms.find(m => m.id === id)!  : the first match
find(ms, id) ==
    LET i == CHOOSE k \in 1..Len(ms) :
                 /\ ms[k].id = id
                 /\ \A j \in 1..(k - 1) : ms[j].id # id
    IN  ms[i]

CatalogIds(ms) == { ms[i].id : i \in 1..Len(ms) }

-----------------------------------------------------------------------------
(* The pure functions *)

canCompose_symmetric(m1, m2) == m1.target = m2.source \/ m2.target = m1.source

canCompose_reversed(m1, m2) == m2.target = m1.source

canCompose(m1, m2) == m1.target = m2.source

compose_sourceFromSecond(m1, m2) ==
    IF ~canCompose(m1, m2) THEN Null
    ELSE Some([ id     |-> m2.id \o Ring \o m1.id,
                label  |-> m2.label \o Ring \o m1.label,
                source |-> m2.source,
                target |-> m2.target ])

compose_labelSwapped(m1, m2) ==
    IF ~canCompose(m1, m2) THEN Null
    ELSE Some([ id     |-> m2.id \o Ring \o m1.id,
                label  |-> m1.label \o Ring \o m2.label,
                source |-> m1.source,
                target |-> m2.target ])

compose_idFromFirst(m1, m2) ==
    IF ~canCompose(m1, m2) THEN Null
    ELSE Some([ id     |-> m1.id,
                label  |-> m2.label \o Ring \o m1.label,
                source |-> m1.source,
                target |-> m2.target ])

compose_targetFromFirst(m1, m2) ==
    IF ~canCompose(m1, m2) THEN Null
    ELSE Some([ id     |-> m2.id \o Ring \o m1.id,
                label  |-> m2.label \o Ring \o m1.label,
                source |-> m1.source,
                target |-> m1.target ])

compose(m1, m2) ==
    IF ~canCompose(m1, m2) THEN Null
    ELSE Some([ id     |-> m2.id \o Ring \o m1.id,
                label  |-> m2.label \o Ring \o m1.label,
                source |-> m1.source,
                target |-> m2.target ])

ErrorText(m1, m2) ==
    "Cannot compose: " \o m1.label \o " and " \o m2.label
        \o " are not composable (target " \o NotEqualSign \o " source)"

-----------------------------------------------------------------------------
(* The handlers, as functions of the state record                          *)
(*   st = [selected, composition, error, isNewComposition]                 *)
(* the handler's render holds.                                             *)

\* setError(null); setIsNewComposition(false);
ClearFlags_keepError(st) == [st EXCEPT !.isNewComposition = FALSE]

ClearFlags(st) == [st EXCEPT !.error = Null, !.isNewComposition = FALSE]

\* if (selected.includes(morphismId)) { ... }
Deselect_keepComposition(st, morphismId) ==
    [st EXCEPT !.selected = filterOut(st.selected, morphismId)]

Deselect_clearAll(st, morphismId) ==
    [st EXCEPT !.selected = <<>>, !.composition = Null]

Deselect(st, morphismId) ==
    [st EXCEPT !.selected = filterOut(st.selected, morphismId),
               !.composition = Null]

\* else if (selected.length === 0) { ... }
FirstSelection(st, morphismId) ==
    [st EXCEPT !.selected = <<morphismId>>, !.composition = Null]

\* else if (selected.length === 1) { ... }
SecondSelection_noReorder(st, ms, morphismId) ==
    LET m1    == find(ms, st.selected[1])
        m2    == find(ms, morphismId)
        first == compose(m1, m2)
        comp  == IF first = Null THEN compose(m2, m1) ELSE first
    IN  IF comp # Null
        THEN [st EXCEPT !.selected = <<st.selected[1], morphismId>>,
                        !.composition = comp,
                        !.isNewComposition = TRUE]
        ELSE [st EXCEPT !.selected = <<morphismId>>,
                        !.error = Some(ErrorText(m1, m2))]

SecondSelection_keepFirst(st, ms, morphismId) ==
    LET m1    == find(ms, st.selected[1])
        m2    == find(ms, morphismId)
        first == compose(m1, m2)
        comp  == IF first = Null THEN compose(m2, m1) ELSE first
        sel   == IF first # Null THEN <<st.selected[1], morphismId>>
                 ELSE IF comp # Null THEN <<morphismId, st.selected[1]>>
                 ELSE st.selected
    IN  IF comp # Null
        THEN [st EXCEPT !.selected = sel,
                        !.composition = comp,
                        !.isNewComposition = TRUE]
        ELSE [st EXCEPT !.selected = sel,
                        !.error = Some(ErrorText(m1, m2))]

SecondSelection_reverseFirst(st, ms, morphismId) ==
    LET m1    == find(ms, st.selected[1])
        m2    == find(ms, morphismId)
        first == compose(m2, m1)
        comp  == IF first = Null THEN compose(m1, m2) ELSE first
        sel   == IF first # Null THEN <<morphismId, st.selected[1]>>
                 ELSE IF comp # Null THEN <<st.selected[1], morphismId>>
                 ELSE st.selected
    IN  IF comp # Null
        THEN [st EXCEPT !.selected = sel,
                        !.composition = comp,
                        !.isNewComposition = TRUE]
        ELSE [st EXCEPT !.selected = <<morphismId>>,
                        !.error = Some(ErrorText(m1, m2))]

SecondSelection(st, ms, morphismId) ==
    LET m1    == find(ms, st.selected[1])
        m2    == find(ms, morphismId)
        \* let comp = compose(m1, m2); if (!comp) { comp = compose(m2, m1); ... }
        first == compose(m1, m2)
        comp  == IF first = Null THEN compose(m2, m1) ELSE first
        \* the setSelected call of lines 104 / 107, if any
        sel   == IF first # Null THEN <<st.selected[1], morphismId>>
                 ELSE IF comp # Null THEN <<morphismId, st.selected[1]>>
                 ELSE st.selected
    IN  IF comp # Null
        THEN [st EXCEPT !.selected = sel,
                        !.composition = comp,
                        !.isNewComposition = TRUE]
        ELSE [st EXCEPT !.selected = <<morphismId>>,
                        !.error = Some(ErrorText(m1, m2))]

\* else { ... }
ResetSelection_append(st, morphismId) ==
    [st EXCEPT !.selected = Append(st.selected, morphismId),
               !.composition = Null]

ResetSelection_keepComposition(st, morphismId) ==
    [st EXCEPT !.selected = <<morphismId>>]

ResetSelection(st, morphismId) ==
    [st EXCEPT !.selected = <<morphismId>>, !.composition = Null]

handleSelectMorphism_restartAfterError(st, ms, morphismId) ==
    LET s0 == ClearFlags(st)
    IN  IF st.error # Null THEN FirstSelection(s0, morphismId)
        ELSE IF includes(st.selected, morphismId) THEN Deselect(s0, morphismId)
        ELSE IF Len(st.selected) = 0 THEN FirstSelection(s0, morphismId)
        ELSE IF Len(st.selected) = 1 THEN SecondSelection(s0, ms, morphismId)
        ELSE ResetSelection(s0, morphismId)

\* The size-2 branch tested before the "already selected" branch.
handleSelectMorphism_lengthFirst(st, ms, morphismId) ==
    LET s0 == ClearFlags(st)
    IN  IF Len(st.selected) = 2 THEN ResetSelection(s0, morphismId)
        ELSE IF includes(st.selected, morphismId) THEN Deselect(s0, morphismId)
        ELSE IF Len(st.selected) = 0 THEN FirstSelection(s0, morphismId)
        ELSE SecondSelection(s0, ms, morphismId)

\* The size-1 branch tested before the "already selected" branch.
handleSelectMorphism_selectBeforeToggle(st, ms, morphismId) ==
    LET s0 == ClearFlags(st)
    IN  IF Len(st.selected) = 1 THEN SecondSelection(s0, ms, morphismId)
        ELSE IF includes(st.selected, morphismId) THEN Deselect(s0, morphismId)
        ELSE IF Len(st.selected) = 0 THEN FirstSelection(s0, morphismId)
        ELSE ResetSelection(s0, morphismId)

handleSelectMorphism(st, ms, morphismId) ==
    LET s0 == ClearFlags(st)
    IN  IF includes(st.selected, morphismId) THEN Deselect(s0, morphismId)
        ELSE IF Len(st.selected) = 0 THEN FirstSelection(s0, morphismId)
        ELSE IF Len(st.selected) = 1 THEN SecondSelection(s0, ms, morphismId)
        ELSE ResetSelection(s0, morphismId)

clearSelection_keepError(st) ==
    [st EXCEPT !.selected = <<>>, !.composition = Null,
               !.isNewComposition = FALSE]

clearSelection_keepComposition(st) ==
    [st EXCEPT !.selected = <<>>, !.error = Null, !.isNewComposition = FALSE]

clearSelection(st) ==
    [ selected |-> <<>>, composition |-> Null, error |-> Null,
      isNewComposition |-> FALSE ]

-----------------------------------------------------------------------------
(* The state machine *)

\* The state of the first render.
EmptyState ==
    [ selected |-> <<>>, composition |-> Null, error |-> Null,
      isNewComposition |-> FALSE ]

\* The state the handlers of the current render hold.
Current ==
    [ selected |-> selected, composition |-> composition, error |-> error,
      isNewComposition |-> isNewComposition ]

Commit(st) ==
    /\ selected' = st.selected
    /\ composition' = st.composition
    /\ error' = st.error
    /\ isNewComposition' = st.isNewComposition

\* The keys of objectPositions: the objects the diagram draws.
objectPositions == {"A", "B", "C", "D"}

\* The dependency list of the drawing effect, in the render with state st.
EffectDeps_withoutSelected(ms, st) == <<ms, st.composition, st.isNewComposition>>

EffectDeps(ms, st) == <<ms, st.selected, st.composition, st.isNewComposition>>

\* The render that follows a handler that queued the state st: the queued
\* values are applied together, the catalog has no setter, and the drawing
\* effect rebinds the arrows when a dependency changed.
Render_persistComposite(st) ==
    /\ Commit(st)
    /\ morphisms' = IF st.composition # Null
                    THEN Append(morphisms, st.composition[1])
                    ELSE morphisms
    /\ arrowBound' = IF EffectDeps(morphisms, st) # EffectDeps(morphisms, Current)
                     THEN st ELSE arrowBound

Render(st) ==
    /\ Commit(st)
    /\ morphisms' = morphisms
    /\ arrowBound' = IF EffectDeps(morphisms, st) # EffectDeps(morphisms, Current)
                     THEN st ELSE arrowBound

\* The second instance after its first render.
SecondInit ==
    /\ other = EmptyState
    /\ otherBound = EmptyState

\* The objects and morphisms CategoryBuilder starts with and resetToExample
\* restores.  An object is its id (its label is the same string; its
\* position is read by the drawing only); a morphism is its label, source
\* and target (its id is read by no handler).
exampleObjects == <<"A", "B", "C">>

exampleMorphisms ==
    << [label |-> "f", source |-> "A", target |-> "B"],
       [label |-> "g", source |-> "B", target |-> "C"],
       [label |-> "g" \o Ring \o "f", source |-> "A", target |-> "C"] >>

BuilderInit ==
    builder = [ objects          |-> exampleObjects,
                morphisms        |-> exampleMorphisms,
                selectedObject   |-> Null,
                isAddingMorphism |-> FALSE,
                morphismSource   |-> Null,
                nextLabel        |-> "D" ]

\* bookStructure.totalPages
totalPages == 80

\* initialState of BookContext.tsx.  zoom is counted in quarters: 0.25 is 1,
\* 0.5 is 2, 1 is 4 and 3 is 12.
initialState ==
    [ currentPage                |-> 1,
      totalPages                 |-> totalPages,
      zoom                       |-> 4,
      sidebarOpen                |-> TRUE,
      enhancementPanelOpen       |-> TRUE,
      enhancementPanelFullscreen |-> FALSE,
      activeTab                  |-> "examples" ]

BookInit ==
    /\ book = initialState
    /\ dispatched = "INIT"
    /\ pageMoved = FALSE

\* The names of the presets of the visualizer; activePreset is an index
\* into the array, from 0.
presets == <<"List reverse", "List singleton", "Flatten (join)">>

VisualizerInit ==
    /\ visualizer = [activePreset |-> 0, highlightPath |-> "both", animating |-> FALSE]
    /\ timers = <<>>
    /\ lastCall = "init"
    /\ shown = <<>>

\* The state outside the first MorphismComposer instance after construction.
OutsideInit == SecondInit /\ BuilderInit /\ BookInit /\ VisualizerInit

Init ==
    /\ morphisms \in Catalogs
    /\ selected = EmptyState.selected
    /\ composition = EmptyState.composition
    /\ error = EmptyState.error
    /\ isNewComposition = EmptyState.isNewComposition
    /\ lastOp = [op |-> "init", id |-> ""]
    /\ prev = EmptyState
    /\ arrowBound = EmptyState
    /\ actor = 0
    /\ OutsideInit

\* handleSelectMorphism(id) of the render that held the selection sel, called
\* now: it reads that render's selected, and a state it does not set keeps
\* its current value.
Click(sel, id) ==
    /\ Render(handleSelectMorphism([Current EXCEPT !.selected = sel], morphisms, id))
    /\ lastOp' = [op |-> "select", id |-> id]
    /\ prev' = Current
    /\ actor' = 1
    /\ UNCHANGED outsideComposer

\* A button row that also renders the composite as a button.
ButtonClick_withComposite ==
    \/ \E i \in 1..Len(morphisms) : Click(selected, morphisms[i].id)
    \/ composition # Null /\ Click(selected, composition[1].id)

\* A click on the button of a catalog morphism (lines 412-420).
ButtonClick ==
    \E i \in 1..Len(morphisms) : Click(selected, morphisms[i].id)

\* A click on a drawn arrow (lines 199-215).
ArrowClick ==
    \E i \in 1..Len(morphisms) :
        /\ morphisms[i].source \in objectPositions
        /\ morphisms[i].target \in objectPositions
        /\ Click(arrowBound.selected, morphisms[i].id)

\* A click on the arrow or on the button of a catalog morphism.
SelectMorphism == ButtonClick \/ ArrowClick

\* A click on the Clear button.
ClearSelection ==
    /\ Render(clearSelection(Current))
    /\ lastOp' = [op |-> "clear", id |-> ""]
    /\ prev' = Current
    /\ actor' = 1
    /\ UNCHANGED outsideComposer

Next == SelectMorphism \/ ClearSelection

-----------------------------------------------------------------------------
(* A second MorphismComposer instance (lines 56-63: every instance calls   *)
(* useState itself and owns its selected, composition, error and           *)
(* isNewComposition; the catalog is the module constant initialMorphisms,  *)
(* which no handler writes).                                               *)

\* A render of the second instance that stores the queued state in a store
\* both instances read.
RenderOther_sharedStore(st) ==
    /\ other' = st
    /\ otherBound' = IF EffectDeps(morphisms, st) # EffectDeps(morphisms, other)
                     THEN st ELSE otherBound
    /\ Commit(st)
    /\ actor' = 2
    /\ UNCHANGED <<morphisms, lastOp, prev, arrowBound, builder, bookVars,
                   visualizerVars>>

\* The render of the second instance that follows a handler of it that
\* queued the state st.
RenderOther(st) ==
    /\ other' = st
    /\ otherBound' = IF EffectDeps(morphisms, st) # EffectDeps(morphisms, other)
                     THEN st ELSE otherBound
    /\ actor' = 2
    /\ UNCHANGED <<composerVars, builder, bookVars, visualizerVars>>

\* A click on a morphism button of the second instance.
OtherButtonClick ==
    \E i \in 1..Len(morphisms) :
        RenderOther(handleSelectMorphism(other, morphisms, morphisms[i].id))

\* A click on a drawn arrow of the second instance.
OtherArrowClick ==
    \E i \in 1..Len(morphisms) :
        /\ morphisms[i].source \in objectPositions
        /\ morphisms[i].target \in objectPositions
        /\ RenderOther(handleSelectMorphism(
                           [other EXCEPT !.selected = otherBound.selected],
                           morphisms, morphisms[i].id))

\* A click on the Clear button of the second instance.
OtherClearSelection == RenderOther(clearSelection(other))

NextOther == OtherButtonClick \/ OtherArrowClick \/ OtherClearSelection

-----------------------------------------------------------------------------
(* CategoryBuilder (src/src/components/simulators/FunctorMapper.tsx, lines *)
(* 551-1060).  Every handler is the one of the current render: the buttons *)
(* and object tags are rendered with it, and the drawing effect lists      *)
(* handleObjectClick and every state it reads among its dependencies (line *)
(* 922).  showHint, animatingMorphism and verification are written for the *)
(* display only and read by no handler; they are left out.                 *)

\* The letters nextLabel runs through (String.fromCharCode(code + 1)).
Letters == <<"A", "B", "C", "D", "E", "F", "G", "H">>

LetterIndex(c) == CHOOSE i \in 1..Len(Letters) : Letters[i] = c

\* The labels handleObjectClick tries for a new morphism, in order.
MorphismLabels == <<"f", "g", "h", "i", "j", "k", "l", "m">>

\* let newLabel = 'f'; while (existingLabels.includes(newLabel)) ...
newLabel(ms) ==
    LET used == { ms[i].label : i \in 1..Len(ms) }
        k    == CHOOSE j \in 1..Len(MorphismLabels) :
                    /\ MorphismLabels[j] \notin used
                    /\ \A h \in 1..(j - 1) : MorphismLabels[h] \in used
    IN  MorphismLabels[k]

\* objects.filter(o => o.id !== id)
withoutObject(objs, id) ==
    LET keep(o) == o # id
    IN  SelectSeq(objs, keep)

\* morphisms.filter(m => m.source !== id && m.target !== id)
withoutIncident(ms, id) ==
    LET keep(m) == m.source # id /\ m.target # id
    IN  SelectSeq(ms, keep)

addObject(b) ==
    [b EXCEPT !.objects = Append(b.objects, b.nextLabel),
              !.nextLabel = Letters[LetterIndex(b.nextLabel) + 1]]

startAddMorphism(b) ==
    [b EXCEPT !.isAddingMorphism = TRUE, !.morphismSource = Null,
              !.selectedObject = Null]

cancelAddMorphism(b) ==
    [b EXCEPT !.isAddingMorphism = FALSE, !.morphismSource = Null]

handleObjectClick(b, objId) ==
    IF b.isAddingMorphism
    THEN IF b.morphismSource = Null
         THEN [b EXCEPT !.morphismSource = Some(objId)]
         ELSE IF b.morphismSource[1] # objId
         THEN [b EXCEPT !.morphisms =
                            Append(b.morphisms,
                                   [ label  |-> newLabel(b.morphisms),
                                     source |-> b.morphismSource[1],
                                     target |-> objId ]),
                        !.isAddingMorphism = FALSE,
                        !.morphismSource = Null]
         ELSE b
    ELSE [b EXCEPT !.selectedObject =
                       IF b.selectedObject = Some(objId) THEN Null ELSE Some(objId)]

\* onClick of an object tag in the Objects list (line 1026)
objectTagClick(b, objId) ==
    [b EXCEPT !.selectedObject =
                  IF b.selectedObject = Some(objId) THEN Null ELSE Some(objId)]

clearCategory(b) ==
    [b EXCEPT !.objects = <<>>, !.morphisms = <<>>, !.nextLabel = "A",
              !.selectedObject = Null]

resetToExample(b) ==
    [b EXCEPT !.objects = exampleObjects, !.morphisms = exampleMorphisms,
              !.nextLabel = "D", !.selectedObject = Null]

deleteSelected(b) ==
    IF b.selectedObject # Null
    THEN [b EXCEPT !.objects = withoutObject(b.objects, b.selectedObject[1]),
                   !.morphisms = withoutIncident(b.morphisms, b.selectedObject[1]),
                   !.selectedObject = Null]
    ELSE b

\* A handler of CategoryBuilder ran and queued the state b.
BuilderRender(b) ==
    /\ builder' = b
    /\ UNCHANGED <<composerVars, actor, secondVars, bookVars, visualizerVars>>

\* The "Object" button.
AddObject ==
    /\ LetterIndex(builder.nextLabel) <= MaxLetter
    /\ BuilderRender(addObject(builder))

\* The "Morphism" button: it starts the adding mode, or cancels it when the
\* mode is on (line 948).
StartAddMorphism ==
    /\ ~builder.isAddingMorphism
    /\ BuilderRender(startAddMorphism(builder))

CancelAddMorphism ==
    /\ builder.isAddingMorphism
    /\ BuilderRender(cancelAddMorphism(builder))

\* A click on an object drawn on the canvas (lines 852-855).
CanvasObjectClick ==
    \E i \in 1..Len(builder.objects) :
        /\ \/ ~builder.isAddingMorphism
           \/ builder.morphismSource = Null
           \/ Len(builder.morphisms) < MaxBuilderMorphisms
        /\ BuilderRender(handleObjectClick(builder, builder.objects[i]))

\* A click on an object tag of the Objects list.
ObjectTagClick ==
    \E i \in 1..Len(builder.objects) :
        BuilderRender(objectTagClick(builder, builder.objects[i]))

\* The Delete button, rendered while an object is selected (line 968).
DeleteSelected ==
    /\ builder.selectedObject # Null
    /\ BuilderRender(deleteSelected(builder))

ClearCategory == BuilderRender(clearCategory(builder))

ResetToExample == BuilderRender(resetToExample(builder))

NextBuilder ==
    \/ AddObject
    \/ StartAddMorphism
    \/ CancelAddMorphism
    \/ CanvasObjectClick
    \/ ObjectTagClick
    \/ DeleteSelected
    \/ ClearCategory
    \/ ResetToExample

-----------------------------------------------------------------------------
(* The book reader's state (src/src/contexts/BookContext.tsx).  Every      *)
(* change of BookState goes through bookReducer.  SET_ZOOM payloads are    *)
(* taken from the multiples of 0.25.                                       *)

Min(a, b) == IF a <= b THEN a ELSE b

Max(a, b) == IF a >= b THEN a ELSE b

\* NEXT_PAGE without the Math.min, SET_PAGE without the Math.max.
bookReducer_unclamped(state, action) ==
    CASE action.type = "SET_PAGE" ->
             [state EXCEPT !.currentPage = Min(action.payload, state.totalPages)]
      [] action.type = "NEXT_PAGE" ->
             [state EXCEPT !.currentPage = state.currentPage + 1]
      [] action.type = "PREV_PAGE" ->
             [state EXCEPT !.currentPage = Max(state.currentPage - 1, 1)]
      [] OTHER -> state

bookReducer(state, action) ==
    CASE action.type = "SET_PAGE" ->
             [state EXCEPT !.currentPage =
                               Max(1, Min(action.payload, state.totalPages))]
      [] action.type = "NEXT_PAGE" ->
             [state EXCEPT !.currentPage =
                               Min(state.currentPage + 1, state.totalPages)]
      [] action.type = "PREV_PAGE" ->
             [state EXCEPT !.currentPage = Max(state.currentPage - 1, 1)]
      [] action.type = "SET_ZOOM" ->
             [state EXCEPT !.zoom = Max(2, Min(action.payload, 12))]
      [] action.type = "ZOOM_IN" ->
             [state EXCEPT !.zoom = Min(state.zoom + 1, 12)]
      [] action.type = "ZOOM_OUT" ->
             [state EXCEPT !.zoom = Max(state.zoom - 1, 2)]
      [] action.type = "RESET_ZOOM" ->
             [state EXCEPT !.zoom = 4]
      [] action.type = "TOGGLE_SIDEBAR" ->
             [state EXCEPT !.sidebarOpen = ~state.sidebarOpen]
      [] action.type = "TOGGLE_ENHANCEMENT_PANEL" ->
             [state EXCEPT !.enhancementPanelOpen = ~state.enhancementPanelOpen]
      [] action.type = "TOGGLE_ENHANCEMENT_PANEL_FULLSCREEN" ->
             [state EXCEPT !.enhancementPanelFullscreen =
                               ~state.enhancementPanelFullscreen]
      [] action.type = "SET_ACTIVE_TAB" ->
             [state EXCEPT !.activeTab = action.payload]
      [] OTHER -> state

\* The payloads of SET_PAGE: the integers around either end of the book and
\* a page in the middle.
PagePayloads ==
    ((0 - PageMargin)..(1 + PageMargin))
        \cup {totalPages \div 2}
        \cup ((totalPages - PageMargin)..(totalPages + PageMargin))

\* The payloads of SET_ZOOM, in quarters: below, at and above the limits.
ZoomPayloads == {0, 2, 7, 12, 14}

\* BookState['activeTab']
Tabs == {"examples", "simulator", "applications", "learning"}

\* dispatch(action)
Dispatch(action) ==
    /\ book' = bookReducer(book, action)
    /\ dispatched' = action.type
    /\ pageMoved' = (book'.currentPage # book.currentPage)
    /\ UNCHANGED <<composerVars, actor, secondVars, builder, visualizerVars>>

\* goToPage(page)
SetPage == \E p \in PagePayloads : Dispatch([type |-> "SET_PAGE", payload |-> p])

\* handleSubmit of PageNavigation.tsx: goToPage for a page number of the
\* book, nothing for another input.
SubmitPage ==
    \E page \in PagePayloads :
        IF page >= 1 /\ page <= book.totalPages
        THEN Dispatch([type |-> "SET_PAGE", payload |-> page])
        ELSE UNCHANGED vars

NextPage == Dispatch([type |-> "NEXT_PAGE"])

PrevPage == Dispatch([type |-> "PREV_PAGE"])

SetZoom == \E z \in ZoomPayloads : Dispatch([type |-> "SET_ZOOM", payload |-> z])

ZoomIn == Dispatch([type |-> "ZOOM_IN"])

ZoomOut == Dispatch([type |-> "ZOOM_OUT"])

ResetZoom == Dispatch([type |-> "RESET_ZOOM"])

ToggleSidebar == Dispatch([type |-> "TOGGLE_SIDEBAR"])

ToggleEnhancementPanel == Dispatch([type |-> "TOGGLE_ENHANCEMENT_PANEL"])

ToggleEnhancementPanelFullscreen ==
    Dispatch([type |-> "TOGGLE_ENHANCEMENT_PANEL_FULLSCREEN"])

SetActiveTab ==
    \E tab \in Tabs : Dispatch([type |-> "SET_ACTIVE_TAB", payload |-> tab])

NextBook ==
    \/ SetPage
    \/ SubmitPage
    \/ NextPage
    \/ PrevPage
    \/ SetZoom
    \/ ZoomIn
    \/ ZoomOut
    \/ ResetZoom
    \/ ToggleSidebar
    \/ ToggleEnhancementPanel
    \/ ToggleEnhancementPanelFullscreen
    \/ SetActiveTab

-----------------------------------------------------------------------------
(* NaturalTransformationVisualizer (MorphismComposer.tsx, lines 570-1030). *)
(* handleAnimate registers two timers, due 1200 ms and 2400 ms after the   *)
(* call; the browser runs a timer's callback once, when it is due, so the  *)
(* one due first runs first.  The path buttons and the preset selector     *)
(* stay enabled during the run.  A callback's set-state calls are applied  *)
(* together (React 18).  showHint is read by no handler and is left out.   *)

\* handleAnimate without its first line.
handleAnimate_noGuard(v) ==
    [v EXCEPT !.animating = TRUE, !.highlightPath = "top"]

\* The state handleAnimate queues.
handleAnimate(v) ==
    IF v.animating THEN v
    ELSE [v EXCEPT !.animating = TRUE, !.highlightPath = "top"]

\* The timers pending after handleAnimate, ts pending before it.
timersAfterAnimate(v, ts) ==
    IF v.animating THEN ts ELSE ts \o <<"bottom", "finish">>

\* () => setHighlightPath('bottom')
timerBottom(v) == [v EXCEPT !.highlightPath = "bottom"]

\* () => { setHighlightPath('both'); setAnimating(false); }
timerFinish(v) == [v EXCEPT !.highlightPath = "both", !.animating = FALSE]

\* A handler or callback named call queued the state v.
VisualizerRender(v, call) ==
    /\ visualizer' = v
    /\ lastCall' = call
    /\ UNCHANGED <<composerVars, actor, secondVars, builder, bookVars>>

\* The Animate button.
HandleAnimate ==
    /\ VisualizerRender(handleAnimate(visualizer), "animate")
    /\ timers' = timersAfterAnimate(visualizer, timers)
    /\ shown' = IF visualizer' # visualizer THEN <<visualizer'.highlightPath>>
                ELSE shown

\* The Top Path, Bottom Path and Both buttons.
PathButtonClick ==
    \E path \in {"top", "bottom", "both"} :
        /\ visualizer.animating => Len(shown) < MaxShown
        /\ VisualizerRender([visualizer EXCEPT !.highlightPath = path], "path")
        /\ shown' = IF visualizer.animating THEN Append(shown, path) ELSE shown
        /\ timers' = timers

\* The preset selector.
PresetChange ==
    \E i \in 0..(Len(presets) - 1) :
        /\ VisualizerRender([visualizer EXCEPT !.activePreset = i], "preset")
        /\ UNCHANGED <<timers, shown>>

\* The timer that is due first runs its callback.
TimerFires ==
    /\ timers # <<>>
    /\ LET v == IF Head(timers) = "bottom" THEN timerBottom(visualizer)
                ELSE timerFinish(visualizer)
       IN  /\ VisualizerRender(v, "timer")
           /\ shown' = IF visualizer.animating
                       THEN Append(shown, v.highlightPath) ELSE shown
    /\ timers' = Tail(timers)

NextVisualizer == HandleAnimate \/ PathButtonClick \/ PresetChange \/ TimerFires

-----------------------------------------------------------------------------
(* Specifications *)

\* Construction over the shipped catalog.
InitShipped == Init /\ morphisms = initialMorphisms

\* One MorphismComposer.
Spec == Init /\ [][Next]_vars

\* Two MorphismComposer instances shown at once, their handlers interleaved.
SpecTwo == InitShipped /\ [][Next \/ NextOther]_vars

\* CategoryBuilder.
SpecBuilder == InitShipped /\ [][NextBuilder]_vars

\* The book reader.
SpecBook == InitShipped /\ [][NextBook]_vars

\* NaturalTransformationVisualizer.  A pending timer is run by the browser's
\* event loop when it is due, whatever the user does meanwhile.
SpecVisualizer ==
    InitShipped /\ [][NextVisualizer]_vars /\ WF_vars(TimerFires)

-----------------------------------------------------------------------------
(* Vocabulary of the properties *)

\* The last handler run was handleSelectMorphism(b) on the selection <<a>>,
\* b different from a.
SecondClick(a, b) ==
    /\ lastOp = [op |-> "select", id |-> b]
    /\ prev.selected = <<a>>
    /\ a # b

Src(id) == find(morphisms, id).source

Tgt(id) == find(morphisms, id).target

Lbl(id) == find(morphisms, id).label

\* t occurs in s
Contains(s, t) ==
    \E i \in 1..(Len(s) - Len(t) + 1) : SubSeq(s, i, i + Len(t) - 1) = t

\* The state after the calls handleSelectMorphism(a), handleSelectMorphism(b)
\* from the empty state.
SelectTwice(a, b) ==
    handleSelectMorphism(handleSelectMorphism(EmptyState, morphisms, a), morphisms, b)

-----------------------------------------------------------------------------
(* C1: in every reachable state a composite is present if and only if the  *)
(* selection holds exactly 2 ids and the two selected morphisms are        *)
(* composable in at least one order.                                       *)
C1_CompositeIffComposablePair ==
    (composition # Null) <=>
        /\ Len(selected) = 2
        /\ \/ Tgt(selected[1]) = Src(selected[2])
           \/ Tgt(selected[2]) = Src(selected[1])

\* A composite was shown and one of its two morphisms was then deselected.
C1_Witness ==
    /\ lastOp.op = "select"
    /\ prev.composition # Null
    /\ Len(prev.selected) = 2
    /\ includes(prev.selected, lastOp.id)
    /\ Len(selected) = 1
    /\ composition = Null

(* C2: the selection holds 0, 1 or 2 ids, never more.                      *)
C2_SelectionAtMostTwo == Len(selected) \in {0, 1, 2}

\* A third, unselected id was clicked while 2 ids were selected.
C2_Witness ==
    /\ lastOp.op = "select"
    /\ Len(prev.selected) = 2
    /\ ~includes(prev.selected, lastOp.id)

(* C3: when the selection is <<a>> and b # a with target(a) = source(b) is *)
(* selected, the result is selection <<a, b>>, composite {id b*a, label    *)
(* label(b)*label(a), source source(a), target target(b)} and no error.    *)
C3_ForwardComposition ==
    \A a, b \in CatalogIds(morphisms) :
        (SecondClick(a, b) /\ Tgt(a) = Src(b)) =>
            /\ selected = <<a, b>>
            /\ composition = Some([ id     |-> b \o Ring \o a,
                                    label  |-> Lbl(b) \o Ring \o Lbl(a),
                                    source |-> Src(a),
                                    target |-> Tgt(b) ])
            /\ error = Null

\* The shipped scenario f:A->B then g:B->C.
C3_Witness ==
    /\ morphisms = initialMorphisms
    /\ SecondClick("f", "g")
    /\ composition = Some([id |-> "g*f", label |-> "g*f", source |-> "A", target |-> "C"])

(* C4: when the selection is <<a>> and b # a is selected with              *)
(* target(a) # source(b) and target(b) = source(a), the selection is       *)
(* reordered to <<b, a>>, the composite is {id a*b, label                  *)
(* label(a)*label(b), source source(b), target target(a)} and there is no  *)
(* error.                                                                  *)
C4_ReverseComposition ==
    \A a, b \in CatalogIds(morphisms) :
        (SecondClick(a, b) /\ Tgt(a) # Src(b) /\ Tgt(b) = Src(a)) =>
            /\ selected = <<b, a>>
            /\ composition = Some([ id     |-> a \o Ring \o b,
                                    label  |-> Lbl(a) \o Ring \o Lbl(b),
                                    source |-> Src(b),
                                    target |-> Tgt(a) ])
            /\ error = Null

\* The shipped scenario g then f: the selection is reordered to <<f, g>>.
C4_Witness ==
    /\ morphisms = initialMorphisms
    /\ SecondClick("g", "f")
    /\ selected = <<"f", "g">>

(* C5: when the selection is <<a>> and b # a is selected and neither order *)
(* is composable, the result is selection <<b>>, no composite, and an      *)
(* error message that contains the labels of a and of b and says they are  *)
(* not composable.                                                         *)
C5_FailedComposition ==
    \A a, b \in CatalogIds(morphisms) :
        (SecondClick(a, b) /\ Tgt(a) # Src(b) /\ Tgt(b) # Src(a)) =>
            /\ selected = <<b>>
            /\ composition = Null
            /\ error # Null
            /\ Contains(error[1], Lbl(a))
            /\ Contains(error[1], Lbl(b))
            /\ Contains(error[1], "not composable")

\* The shipped scenario f:A->B then h:C->D.
C5_Witness ==
    /\ morphisms = initialMorphisms
    /\ SecondClick("f", "h")
    /\ error # Null

(* C6, as claimed: from every state whose selection holds 2 ids,           *)
(* selecting any catalog id z, one of the two selected ids included,       *)
(* yields selection <<z>>, no composite and no error.  Stated for the      *)
(* shipped catalog, so that the refuting run is one of the shipped         *)
(* simulator.                                                              *)
C6_AsClaimed ==
    (morphisms = initialMorphisms /\ lastOp.op = "select" /\ Len(prev.selected) = 2) =>
        /\ selected = <<lastOp.id>>
        /\ composition = Null
        /\ error = Null

(* C6, amended: from every state whose selection holds 2 ids, selecting a  *)
(* catalog id z that is not selected yields selection <<z>>, selecting one *)
(* of the two selected ids yields the selection holding only the other     *)
(* id; in both cases there is no composite and no error.                   *)
C6_ClickOnTwoSelection ==
    (lastOp.op = "select" /\ Len(prev.selected) = 2) =>
        /\ ~includes(prev.selected, lastOp.id) => selected = <<lastOp.id>>
        /\ lastOp.id = prev.selected[1] => selected = <<prev.selected[2]>>
        /\ lastOp.id = prev.selected[2] => selected = <<prev.selected[1]>>
        /\ composition = Null
        /\ error = Null

\* The first of two selected ids was clicked again and the second remains.
C6_Witness ==
    /\ lastOp.op = "select"
    /\ Len(prev.selected) = 2
    /\ lastOp.id = prev.selected[1]
    /\ selected = <<prev.selected[2]>>

(* C7: toggle law.  In every state whose selection is exactly <<x>>, also  *)
(* right after a failed composition with its error shown, selecting x      *)
(* yields the empty selection with no composite and no error; hence        *)
(* selecting x twice from the empty state returns to the empty state.      *)
C7_ToggleLaw ==
    /\ (lastOp.op = "select" /\ prev.selected = <<lastOp.id>>) =>
           /\ selected = <<>>
           /\ composition = Null
           /\ error = Null
    /\ \A x \in CatalogIds(morphisms) : SelectTwice(x, x) = EmptyState

\* x was toggled off while the error of a failed composition was shown.
C7_Witness ==
    /\ lastOp.op = "select"
    /\ prev.selected = <<lastOp.id>>
    /\ prev.error # Null
    /\ selected = <<>>

(* C8: clearSelection from every reachable state yields selection <<>>,    *)
(* no composite and no error, and a second call leaves that state          *)
(* unchanged.                                                              *)
C8_ClearIsIdempotentReset ==
    /\ lastOp.op = "clear" =>
           /\ selected = <<>>
           /\ composition = Null
           /\ error = Null
    /\ LET once == clearSelection(Current)
       IN  /\ once.selected = <<>>
           /\ once.composition = Null
           /\ once.error = Null
           /\ clearSelection(once) = once

\* Clear was clicked on a singleton selection showing the error of a failed
\* composition.
C8_Witness ==
    /\ lastOp.op = "clear"
    /\ prev.error # Null
    /\ selected = <<>>

(* C9: for every pair of distinct catalog morphisms a, b of which exactly  *)
(* one order is composable, the calls select(a), select(b) and the calls   *)
(* select(b), select(a), each from the empty state, end in the same        *)
(* selection (same order) and the same composite, with no error.           *)
C9_ClickOrderInsensitive ==
    \A a, b \in CatalogIds(morphisms) :
        (a # b /\ ((Tgt(a) = Src(b)) # (Tgt(b) = Src(a)))) =>
            LET ab == SelectTwice(a, b)
                ba == SelectTwice(b, a)
            IN  /\ ab.selected = ba.selected
                /\ Len(ab.selected) = 2
                /\ ab.composition = ba.composition
                /\ ab.composition # Null
                /\ ab.error = Null
                /\ ba.error = Null

\* The run empty, select(a), select(b) was taken with only the order b-then-a
\* composable, and it ended as the run select(b), select(a) ends.
C9_Witness ==
    \E a, b \in CatalogIds(morphisms) :
        /\ SecondClick(a, b)
        /\ prev = handleSelectMorphism(EmptyState, morphisms, a)
        /\ Tgt(a) # Src(b)
        /\ Tgt(b) = Src(a)
        /\ selected = SelectTwice(b, a).selected
        /\ composition = SelectTwice(b, a).composition

(* C10: when the selection is <<a>>, b # a and both orders are composable, *)
(* selecting b treats a as applied first: selection <<a, b>>, composite    *)
(* label label(b)*label(a), source source(a), target target(b).            *)
C10_BothOrdersPreferFirstSelected ==
    \A a, b \in CatalogIds(morphisms) :
        (SecondClick(a, b) /\ Tgt(a) = Src(b) /\ Tgt(b) = Src(a)) =>
            /\ selected = <<a, b>>
            /\ composition # Null
            /\ composition[1].label = Lbl(b) \o Ring \o Lbl(a)
            /\ composition[1].source = Src(a)
            /\ composition[1].target = Tgt(b)

\* a: A->B was selected, then b: B->A.
C10_Witness ==
    \E a, b \in CatalogIds(morphisms) :
        /\ SecondClick(a, b)
        /\ Tgt(a) = Src(b)
        /\ Tgt(b) = Src(a)
        /\ Src(a) # Tgt(a)
        /\ selected = <<a, b>>

-----------------------------------------------------------------------------
(* C11: for all catalog morphisms m1, m2, canCompose(m1, m2) is true       *)
(* exactly when target(m1) = source(m2); in particular it is false when    *)
(* target(m1) # source(m2) even if target(m2) = source(m1).                *)
C11_CanComposeIsTargetEqualsSource ==
    \A i, j \in 1..Len(morphisms) :
        LET m1 == morphisms[i]
            m2 == morphisms[j]
        IN  /\ canCompose(m1, m2) <=> (m1.target = m2.source)
            /\ (m1.target # m2.source /\ m2.target = m1.source) => ~canCompose(m1, m2)

\* The handler asked canCompose for a pair in the wrong order, was refused,
\* and composed the pair in the reverse order.
C11_Witness ==
    \E a, b \in CatalogIds(morphisms) :
        /\ SecondClick(a, b)
        /\ ~canCompose(find(morphisms, a), find(morphisms, b))
        /\ canCompose(find(morphisms, b), find(morphisms, a))
        /\ selected = <<b, a>>
        /\ morphisms # initialMorphisms

(* C12: for all catalog morphisms m1, m2, compose(m1, m2) is absent when   *)
(* canCompose(m1, m2) is false, and otherwise is the morphism with id      *)
(* id(m2)*id(m1), label label(m2)*label(m1), source source(m1) and target  *)
(* target(m2).                                                             *)
C12_ComposeResult ==
    \A i, j \in 1..Len(morphisms) :
        LET m1 == morphisms[i]
            m2 == morphisms[j]
        IN  /\ ~canCompose(m1, m2) => compose(m1, m2) = Null
            /\ canCompose(m1, m2) =>
                   compose(m1, m2) = Some([ id     |-> m2.id \o Ring \o m1.id,
                                            label  |-> m2.label \o Ring \o m1.label,
                                            source |-> m1.source,
                                            target |-> m2.target ])

\* The handler showed compose(m1, m2) of a pair whose reverse compose(m2, m1)
\* is absent.
C12_Witness ==
    \E a, b \in CatalogIds(morphisms) :
        /\ SecondClick(a, b)
        /\ composition # Null
        /\ composition = compose(find(morphisms, a), find(morphisms, b))
        /\ compose(find(morphisms, b), find(morphisms, a)) = Null
        /\ Src(a) # Tgt(b)

(* C13: the catalog is the same after every selectMorphism and             *)
(* clearSelection call as at construction, and a computed composite is     *)
(* never a catalog entry.                                                  *)
C13_CatalogUnchanged ==
    /\ [][morphisms' = morphisms]_vars
    /\ [](composition # Null =>
              \A i \in 1..Len(morphisms) : morphisms[i] # composition[1])

\* A composite is shown over the shipped catalog, which still holds its four
\* morphisms.
C13_Witness ==
    /\ composition # Null
    /\ lastOp.op = "select"
    /\ morphisms = initialMorphisms
    /\ Len(morphisms) = 4

(* C14: the selection size starts at 0; selectMorphism moves it only along *)
(* 0->1, 1->0 (same id), 1->2 (different id, composable in some order,     *)
(* composite set), 1->1 (different id, not composable, error set) and      *)
(* 2->1; clearSelection moves any size to 0.                               *)
C14_SizeTransitions ==
    /\ lastOp.op \in {"init", "clear"} => Len(selected) = 0
    /\ lastOp.op = "select" =>
           LET n  == Len(prev.selected)
               m  == Len(selected)
               id == lastOp.id
               composable(a, b) == Tgt(a) = Src(b) \/ Tgt(b) = Src(a)
           IN  \/ n = 0 /\ m = 1
               \/ n = 1 /\ m = 0 /\ prev.selected = <<id>>
               \/ /\ n = 1 /\ m = 2 /\ prev.selected # <<id>>
                  /\ composable(prev.selected[1], id)
                  /\ composition # Null
               \/ /\ n = 1 /\ m = 1 /\ prev.selected # <<id>>
                  /\ ~composable(prev.selected[1], id)
                  /\ error # Null
               \/ n = 2 /\ m = 1

\* The transition 2->1 taken by a click on the second of the two selected ids.
C14_Witness ==
    /\ lastOp.op = "select"
    /\ Len(prev.selected) = 2
    /\ lastOp.id = prev.selected[2]
    /\ Len(selected) = 1

(* C15: in every reachable state in which an error is present, the         *)
(* selection is the singleton holding the most recently clicked id and the *)
(* composite is absent.                                                    *)
C15_ErrorOnlyOnSingleton ==
    error # Null =>
        /\ lastOp.op = "select"
        /\ selected = <<lastOp.id>>
        /\ composition = Null

\* A second failed composition right after a first one.
C15_Witness ==
    /\ error # Null
    /\ prev.error # Null
    /\ selected = <<lastOp.id>>

(* C16: an error is present exactly when the last operation was            *)
(* selectMorphism(b) on a singleton selection <<a>> with b # a and neither *)
(* order composable; every other selectMorphism outcome and every          *)
(* clearSelection leaves the error absent, so no error outlives the next   *)
(* operation.                                                              *)
C16_ErrorSetByOneTransition ==
    (error # Null) <=>
        /\ lastOp.op = "select"
        /\ Len(prev.selected) = 1
        /\ prev.selected[1] # lastOp.id
        /\ Tgt(prev.selected[1]) # Src(lastOp.id)
        /\ Tgt(lastOp.id) # Src(prev.selected[1])

\* An error was set from an error-free singleton over a generated catalog.
C16_Witness ==
    /\ error # Null
    /\ prev.error = Null
    /\ Len(prev.selected) = 1
    /\ morphisms # initialMorphisms

(* C17: a composite never survives the next operation: from every state    *)
(* with a composite, every selectMorphism and clearSelection leads to a    *)
(* state without a composite.                                              *)
C17_CompositeDiscarded ==
    (lastOp.op \in {"select", "clear"} /\ prev.composition # Null) =>
        composition = Null

\* Clear was clicked while a composite was shown.
C17_Witness ==
    /\ lastOp.op = "clear"
    /\ prev.composition # Null
    /\ composition = Null

(* C18: after a failed composition (selection <<b>>, error set) the next   *)
(* selectMorphism(c) produces exactly the selection, composite and error   *)
(* it would produce from the error-free state with selection <<b>>.  For   *)
(* the shipped catalog, select f, then h, then g ends with selection       *)
(* <<g, h>>, composite {label h*g, source B, target D} and no error.       *)
C18_RecoveryAfterFailure ==
    /\ (lastOp.op = "select" /\ prev.error # Null) =>
           LET clean == handleSelectMorphism([prev EXCEPT !.error = Null],
                                             morphisms, lastOp.id)
           IN  /\ selected = clean.selected
               /\ composition = clean.composition
               /\ error = clean.error
    /\ ( /\ morphisms = initialMorphisms
         /\ lastOp = [op |-> "select", id |-> "g"]
         /\ prev.selected = <<"h">>
         /\ prev.error = Some("Cannot compose: f and h are not composable (target /= source)") )
       => /\ selected = <<"g", "h">>
          /\ composition # Null
          /\ composition[1].label = "h*g"
          /\ composition[1].source = "B"
          /\ composition[1].target = "D"
          /\ error = Null

\* The shipped run f, h, g.
C18_Witness ==
    /\ morphisms = initialMorphisms
    /\ lastOp = [op |-> "select", id |-> "g"]
    /\ prev.selected = <<"h">>
    /\ prev.error = Some("Cannot compose: f and h are not composable (target /= source)")
    /\ selected = <<"g", "h">>

(* C19: no terminal state: in every reachable state selectMorphism(id) is  *)
(* enabled for every catalog id and clearSelection is enabled, every       *)
(* selectMorphism call changes the selection, and the empty state is       *)
(* reachable (by clearSelection).                                          *)
C19_NoTerminalState ==
    /\ \A id \in CatalogIds(morphisms) :
           /\ ENABLED Click(selected, id)
           /\ handleSelectMorphism(Current, morphisms, id).selected # selected
    /\ lastOp.op = "select" => selected # prev.selected
    /\ ENABLED ( /\ ClearSelection
                 /\ selected' = <<>>
                 /\ composition' = Null
                 /\ error' = Null )

\* A click on a singleton showing an error replaced it by another singleton.
C19_Witness ==
    /\ lastOp.op = "select"
    /\ Len(prev.selected) = 1
    /\ Len(selected) = 1
    /\ selected # prev.selected
    /\ prev.error # Null

(* C20: every selectMorphism call, from a diagram arrow or from a button,  *)
(* is evaluated against the selection produced by all earlier calls, never *)
(* against a stale one, and selection, composite and error change          *)
(* together.                                                               *)
C20_NoStaleHandler ==
    /\ arrowBound.selected = selected
    /\ lastOp.op = "select" =>
           Current = handleSelectMorphism(prev, morphisms, lastOp.id)
    /\ lastOp.op = "clear" => Current = clearSelection(prev)

\* A second click composed with the first: the arrows were rebound in between
\* and are bound to the render of the 2-selection now.
C20_Witness ==
    /\ lastOp.op = "select"
    /\ Len(prev.selected) = 1
    /\ Len(selected) = 2
    /\ arrowBound = Current
    /\ arrowBound # prev

-----------------------------------------------------------------------------
(* C22: every id handed to handleSelectMorphism is the id of a catalog     *)
(* morphism, every selected id is the id of a catalog morphism, and the id *)
(* of a composite that is present is not in the selection: the composite   *)
(* is never selected.                                                      *)
C22_OnlyCatalogIdsSelected ==
    /\ lastOp.op = "select" => lastOp.id \in CatalogIds(morphisms)
    /\ \A i \in 1..Len(selected) : selected[i] \in CatalogIds(morphisms)
    /\ composition # Null => ~includes(selected, composition[1].id)

\* A click made while a composite was shown: the clicked id is a catalog id
\* outside the 2-selection and is the whole selection now.
C22_Witness ==
    /\ lastOp.op = "select"
    /\ prev.composition # Null
    /\ ~includes(prev.selected, lastOp.id)
    /\ lastOp.id \in CatalogIds(morphisms)
    /\ selected = <<lastOp.id>>

(* C23: whenever a composite is present, its id differs from the id of     *)
(* every catalog morphism.                                                 *)
C23_CompositeIdNotCatalogId ==
    composition # Null =>
        \A i \in 1..Len(morphisms) : morphisms[i].id # composition[1].id

\* A composite over a generated catalog, its id built from two catalog ids.
C23_Witness ==
    /\ morphisms \in GeneratedCatalogs
    /\ composition # Null
    /\ \E a, b \in CatalogIds(morphisms) : composition[1].id = b \o Ring \o a

(* C25: in a state whose selection is <<p, q>>, selecting p or q removes   *)
(* that id only: the selection is the other id alone, in place, and there  *)
(* is no composite and no error.  The clicked id does not become the       *)
(* selection.                                                              *)
C25_DeselectFromPair ==
    \A p, q \in CatalogIds(morphisms) :
        (lastOp.op = "select" /\ prev.selected = <<p, q>> /\ lastOp.id \in {p, q}) =>
            /\ selected = filterOut(<<p, q>>, lastOp.id)
            /\ Len(selected) = 1
            /\ ~includes(selected, lastOp.id)
            /\ composition = Null
            /\ error = Null

\* On the shipped catalog: g is clicked in the selection <<f, g>>, whose
\* composite was shown, and f remains.
C25_Witness ==
    /\ morphisms = initialMorphisms
    /\ lastOp = [op |-> "select", id |-> "g"]
    /\ prev.selected = <<"f", "g">>
    /\ prev.composition # Null
    /\ selected = <<"f">>
    /\ composition = Null
    /\ error = Null

(* C26: in every reachable state whose selection is <<p, q>>,              *)
(* target(p) = source(q) and the composite is present with source          *)
(* source(p), target target(q), label label(q)*label(p) and id q*p.        *)
C26_PairIsComposedInOrder ==
    Len(selected) = 2 =>
        LET p == selected[1]
            q == selected[2]
        IN  /\ Tgt(p) = Src(q)
            /\ composition # Null
            /\ composition[1].source = Src(p)
            /\ composition[1].target = Tgt(q)
            /\ composition[1].label = Lbl(q) \o Ring \o Lbl(p)
            /\ composition[1].id = q \o Ring \o p

\* On the shipped catalog: g was selected first and f second, and the
\* selection is <<f, g>> with the composite g*f from A to C.
C26_Witness ==
    /\ morphisms = initialMorphisms
    /\ SecondClick("g", "f")
    /\ selected = <<"f", "g">>
    /\ composition # Null
    /\ composition[1].source = "A"
    /\ composition[1].target = "C"

(* C27: the selection never holds the same id twice, and no morphism is    *)
(* composed with itself: selecting the only selected id, an endomorphism   *)
(* included, empties the selection and leaves no composite.                *)
C27_NoSelfComposition ==
    /\ \A i, j \in 1..Len(selected) : i # j => selected[i] # selected[j]
    /\ (lastOp.op = "select" /\ prev.selected = <<lastOp.id>>) =>
           /\ selected = <<>>
           /\ composition = Null
    /\ composition # Null =>
           \A x \in CatalogIds(morphisms) : composition[1].id # x \o Ring \o x

\* The only selected morphism, an endomorphism, was selected again.
C27_Witness ==
    /\ lastOp.op = "select"
    /\ prev.selected = <<lastOp.id>>
    /\ Src(lastOp.id) = Tgt(lastOp.id)
    /\ selected = <<>>
    /\ composition = Null

-----------------------------------------------------------------------------
(* C21: two instances over the same catalog are independent.  A            *)
(* handleSelectMorphism or clearSelection call of one instance leaves the  *)
(* selection, the composite and the error of the other instance as they    *)
(* were, in every interleaving of the calls of the two.                    *)
C21_InstancesIndependent ==
    [][ /\ actor' = 2 => UNCHANGED <<selected, composition, error>>
        /\ actor' = 1 => /\ other'.selected = other.selected
                         /\ other'.composition = other.composition
                         /\ other'.error = other.error ]_vars

\* The second instance handled the last call and shows a composite, while the
\* first still shows the error of an earlier failed composition of its own.
C21_Witness ==
    /\ actor = 2
    /\ other.composition # Null
    /\ error # Null
    /\ Len(selected) = 1

-----------------------------------------------------------------------------
(* C28: CategoryBuilder.  In every reachable state the source and the      *)
(* target of every morphism name an object that is in the object list.     *)
C28_EndpointsExist ==
    \A i \in 1..Len(builder.morphisms) :
        /\ includes(builder.objects, builder.morphisms[i].source)
        /\ includes(builder.objects, builder.morphisms[i].target)

(* C29: book navigation.  In every reachable state 1 <= currentPage <=     *)
(* totalPages, whatever integer SET_PAGE carried; NEXT_PAGE dispatched on  *)
(* the last page and PREV_PAGE dispatched on page 1 leave currentPage as   *)
(* it was; and an action that is not SET_PAGE, NEXT_PAGE or PREV_PAGE      *)
(* leaves currentPage as it was.                                           *)
C29_PageStaysInBook ==
    /\ [](book.currentPage >= 1 /\ book.currentPage <= book.totalPages)
    /\ [][ /\ (dispatched' = "NEXT_PAGE" /\ book.currentPage = book.totalPages) =>
                  book'.currentPage = book.currentPage
           /\ (dispatched' = "PREV_PAGE" /\ book.currentPage = 1) =>
                  book'.currentPage = book.currentPage
           /\ dispatched' \notin {"SET_PAGE", "NEXT_PAGE", "PREV_PAGE"} =>
                  book'.currentPage = book.currentPage ]_vars

\* NEXT_PAGE was dispatched and did not move the page, which is the last one.
C29_Witness ==
    /\ dispatched = "NEXT_PAGE"
    /\ ~pageMoved
    /\ book.currentPage = book.totalPages
    /\ book.totalPages = 80

(* C30, as claimed: within an animation run highlightPath is 'bottom'      *)
(* before it is 'both': in the record of a run, every 'both' comes after a *)
(* 'bottom'.                                                               *)
C30_AsClaimed ==
    \A i \in 1..Len(shown) :
        shown[i] = "both" => \E j \in 1..(i - 1) : shown[j] = "bottom"

(* C30, amended: handleAnimate called while animating changes nothing; a   *)
(* run starts with highlightPath 'top' and its two timers pending; the     *)
(* first timer sets 'bottom', the second, after it, ends the run with      *)
(* animating false and highlightPath 'both'; under every interleaving with *)
(* path-button clicks and preset changes a run that started ends so.  A    *)
(* path-button click during the run is followed at once and may show       *)
(* 'both' before 'bottom'.                                                 *)
C30_AnimationRun ==
    /\ [][(lastCall' = "animate" /\ visualizer.animating) =>
              (visualizer' = visualizer /\ timers' = timers)]_vars
    /\ [][(~visualizer.animating /\ visualizer'.animating) =>
              /\ lastCall' = "animate"
              /\ visualizer'.highlightPath = "top"
              /\ timers' = <<"bottom", "finish">>]_vars
    /\ [][(timers = <<"bottom", "finish">> /\ timers' = <<"finish">>) =>
              /\ visualizer'.highlightPath = "bottom"
              /\ visualizer'.animating]_vars
    /\ [][(visualizer.animating /\ ~visualizer'.animating) =>
              /\ timers = <<"finish">>
              /\ timers' = <<>>
              /\ visualizer'.highlightPath = "both"]_vars
    /\ [](( ~visualizer.animating /\ shown # <<>>) =>
              /\ shown[1] = "top"
              /\ shown[Len(shown)] = "both"
              /\ \E j \in 2..(Len(shown) - 1) : shown[j] = "bottom")
    /\ visualizer.animating ~> (~visualizer.animating /\ visualizer.highlightPath = "both")

\* A run has ended in which Both was clicked before the first timer was due.
C30_Witness ==
    /\ lastCall = "timer"
    /\ ~visualizer.animating
    /\ visualizer.highlightPath = "both"
    /\ timers = <<>>
    /\ shown = <<"top", "both", "bottom", "both">>

====
